---- MODULE Spec2Model ----
(***************************************************************************)
(* Embeddings server (src/app/main.py): module-level backend selection     *)
(* (fastembed, falling back to sentence-transformers) followed by the two  *)
(* request handlers /health and /embed.                                    *)
(***************************************************************************)
EXTENDS Integers, Sequences, FiniteSets, TLC

(* ---------------- bounds ---------------- *)
MaxReqs == 2
MaxLen == 2
Dim == 2

Strings == {"a", "b"}
EnvValues == {"unset", "intfloat/e5-small"}
DefaultModelId == "BAAI/bge-small-en-v1.5"

ReqIds == 1..MaxReqs
RECURSIVE SeqsUpTo(_)
SeqsUpTo(n) ==
  IF n = 0 THEN {<<>>}
  ELSE LET shorter == SeqsUpTo(n - 1)
       IN shorter \cup {Append(s, x) : s \in {t \in shorter : Len(t) = n - 1}, x \in Strings}
(* the handlers never look inside a text, so the texts are interchangeable  *)
(* and inputs are taken up to renaming them: the first text is "a"         *)
InputSeqs == {s \in SeqsUpTo(MaxLen) : s # <<>> => s[1] = "a"}

(* outcome of a call into a library, by the class of what it raises *)
Outcomes == {"ok", "Exception", "BaseException"}

VARIABLES
  pc,        \* line of the module body about to run, or "ready" / "fatal"
  env,       \* os.environ's MODEL_ID entry ("unset" when absent)
  MODEL_ID,  \* module global, line 6
  _backend,  \* module global, lines 12 / 16
  embedder,  \* module global, lines 13 / 17
  routes,    \* paths registered on app by the decorators
  trace,     \* startup events: library calls made and globals bound
  reqs,      \* requests by id: parsed and waiting for their handler, or over
  ret        \* the latest handler run: its request, the calls it made, its result

vars == <<pc, env, MODEL_ID, _backend, embedder, routes, trace, reqs, ret>>

Unbound == [cls |-> "unbound", model |-> ""]
NoResult == [tag |-> "none"]
NoReq == [st |-> "none", kind |-> "none", inputs |-> <<>>]
NoRun == [req |-> 0, kind |-> "none", inputs |-> <<>>, failAt |-> 0, calls |-> <<>>,
          res |-> NoResult]

Event(op, target, arg, out) == [op |-> op, target |-> target, arg |-> arg, out |-> out]

Init ==
  /\ pc = "l6"
  /\ env \in EnvValues
  /\ MODEL_ID = ""
  /\ _backend = "unbound"
  /\ embedder = Unbound
  /\ routes = {}
  /\ trace = <<>>
  /\ reqs = [i \in ReqIds |-> NoReq]
  /\ ret = NoRun

(* os.getenv(name, default) *)
Getenv(e, default) == IF e = "unset" THEN default ELSE e

(* line 6 *)
ReadModelId ==
  /\ pc = "l6"
  /\ MODEL_ID' = Getenv(env, DefaultModelId)
  /\ trace' = Append(trace, Event("getenv", "MODEL_ID", "", "ok"))
  /\ pc' = "l11"
  /\ UNCHANGED <<env, _backend, embedder, routes, reqs, ret>>

(* variant: the try statement has no handler *)
TryRaise_Uncaught(out) == "fatal"

(* where control goes when a statement of the try body raises: the handler *)
(* of line 14 takes instances of Exception only                            *)
TryRaise(out) == IF out = "Exception" THEN "l15" ELSE "fatal"

(* line 11 *)
ImportFastembed(out) ==
  /\ pc = "l11"
  /\ trace' = Append(trace, Event("import", "fastembed", "", out))
  /\ pc' = IF out = "ok" THEN "l12" ELSE TryRaise(out)
  /\ UNCHANGED <<env, MODEL_ID, _backend, embedder, routes, reqs, ret>>

(* line 12 *)
TagFastembed ==
  /\ pc = "l12"
  /\ _backend' = "fastembed"
  /\ trace' = Append(trace, Event("assign", "_backend", "fastembed", "ok"))
  /\ pc' = "l13"
  /\ UNCHANGED <<env, MODEL_ID, embedder, routes, reqs, ret>>

(* line 13 *)
ConstructTextEmbedding(out) ==
  /\ pc = "l13"
  /\ IF out = "ok"
     THEN /\ embedder' = [cls |-> "TextEmbedding", model |-> MODEL_ID]
          /\ trace' = trace \o <<Event("construct", "TextEmbedding", MODEL_ID, out),
                                 Event("assign", "embedder", "TextEmbedding", "ok")>>
          /\ pc' = "l19"
     ELSE /\ embedder' = embedder
          /\ trace' = Append(trace, Event("construct", "TextEmbedding", MODEL_ID, out))
          /\ pc' = TryRaise(out)
  /\ UNCHANGED <<env, MODEL_ID, _backend, routes, reqs, ret>>

(* line 15 *)
ImportSentenceTransformers(out) ==
  /\ pc = "l15"
  /\ trace' = Append(trace, Event("import", "sentence_transformers", "", out))
  /\ pc' = IF out = "ok" THEN "l16" ELSE "fatal"
  /\ UNCHANGED <<env, MODEL_ID, _backend, embedder, routes, reqs, ret>>

(* variant: line 16 left out *)
TagSentenceTransformers_Missing ==
  /\ pc = "l16"
  /\ pc' = "l17"
  /\ UNCHANGED <<env, MODEL_ID, _backend, embedder, routes, trace, reqs, ret>>

(* line 16 *)
TagSentenceTransformers ==
  /\ pc = "l16"
  /\ _backend' = "sentence-transformers"
  /\ trace' = Append(trace, Event("assign", "_backend", "sentence-transformers", "ok"))
  /\ pc' = "l17"
  /\ UNCHANGED <<env, MODEL_ID, embedder, routes, reqs, ret>>

(* variant: a failure of line 17 is swallowed and the module body goes on *)
ConstructSentenceTransformer_Swallowed(out) ==
  /\ pc = "l17"
  /\ IF out = "ok"
     THEN /\ embedder' = [cls |-> "SentenceTransformer", model |-> MODEL_ID]
          /\ trace' = trace \o <<Event("construct", "SentenceTransformer", MODEL_ID, out),
                                 Event("assign", "embedder", "SentenceTransformer", "ok")>>
     ELSE /\ embedder' = embedder
          /\ trace' = Append(trace, Event("construct", "SentenceTransformer", MODEL_ID, out))
  /\ pc' = "l19"
  /\ UNCHANGED <<env, MODEL_ID, _backend, routes, reqs, ret>>

(* variant: line 17 passes the default identifier instead of MODEL_ID *)
ConstructSentenceTransformer_DefaultModel(out) ==
  /\ pc = "l17"
  /\ IF out = "ok"
     THEN /\ embedder' = [cls |-> "SentenceTransformer", model |-> DefaultModelId]
          /\ trace' = trace \o <<Event("construct", "SentenceTransformer", DefaultModelId, out),
                                 Event("assign", "embedder", "SentenceTransformer", "ok")>>
          /\ pc' = "l19"
     ELSE /\ embedder' = embedder
          /\ trace' = Append(trace, Event("construct", "SentenceTransformer", DefaultModelId, out))
          /\ pc' = "fatal"
  /\ UNCHANGED <<env, MODEL_ID, _backend, routes, reqs, ret>>

(* line 17 *)
ConstructSentenceTransformer(out) ==
  /\ pc = "l17"
  /\ IF out = "ok"
     THEN /\ embedder' = [cls |-> "SentenceTransformer", model |-> MODEL_ID]
          /\ trace' = trace \o <<Event("construct", "SentenceTransformer", MODEL_ID, out),
                                 Event("assign", "embedder", "SentenceTransformer", "ok")>>
          /\ pc' = "l19"
     ELSE /\ embedder' = embedder
          /\ trace' = Append(trace, Event("construct", "SentenceTransformer", MODEL_ID, out))
          /\ pc' = "fatal"
  /\ UNCHANGED <<env, MODEL_ID, _backend, routes, reqs, ret>>

(* lines 19-20 *)
DefineEmbedRequest ==
  /\ pc = "l19"
  /\ pc' = "l22"
  /\ UNCHANGED <<env, MODEL_ID, _backend, embedder, routes, trace, reqs, ret>>

(* lines 22-24: the decorator registers the handler *)
RegisterHealth ==
  /\ pc = "l22"
  /\ routes' = routes \cup {"/health"}
  /\ pc' = "l26"
  /\ UNCHANGED <<env, MODEL_ID, _backend, embedder, trace, reqs, ret>>

(* lines 26-34: the decorator registers the handler; the module body ends *)
RegisterEmbed ==
  /\ pc = "l26"
  /\ routes' = routes \cup {"/embed"}
  /\ pc' = "ready"
  /\ UNCHANGED <<env, MODEL_ID, _backend, embedder, trace, reqs, ret>>

(* ---------------- the two libraries, as the handlers use them ---------------- *)

(* component k of the vector a library's model yields for a text; TRUE in  *)
(* unit when the vector was L2-normalized                                  *)
Component(lib, model, text, k, unit) ==
  [lib |-> lib, model |-> model, text |-> text, k |-> k, unit |-> unit]
Number(type, val) == [type |-> type, val |-> val]

Raised == [tag |-> "raise"]
Return(body) == [tag |-> "return", body |-> body]

(* TextEmbedding.embed(documents): a lazy iterator, one numpy vector per   *)
(* document in order; producing item failAt raises                         *)
TextEmbedding_embed(obj, documents, failAt) ==
  [i \in 1..Len(documents) |->
     IF i = failAt THEN Raised
     ELSE Return([k \in 1..Dim |->
            Number("np.float32", Component("fastembed", obj.model, documents[i], k, FALSE))])]

(* SentenceTransformer.encode(sentences, normalize_embeddings): one batch  *)
(* call yielding a 2-d array, or raising as a whole                        *)
SentenceTransformer_encode(obj, sentences, normalize_embeddings, failAt) ==
  IF failAt # 0 THEN Raised
  ELSE Return([type |-> "ndarray",
               rows |-> [i \in 1..Len(sentences) |->
                          [k \in 1..Dim |->
                             Number("np.float32",
                                    Component("sentence-transformers", obj.model,
                                              sentences[i], k, normalize_embeddings))]]])

(* variant: the items are collected newest first *)
RECURSIVE list_Prepend(_, _, _)
list_Prepend(it, k, acc) ==
  IF k > Len(it) THEN Return(acc)
  ELSE IF it[k].tag = "raise" THEN Raised
  ELSE list_Prepend(it, k + 1, <<it[k].body>> \o acc)

(* variant: an item that raises ends the list with what was drawn so far *)
RECURSIVE list_Partial(_, _, _)
list_Partial(it, k, acc) ==
  IF k > Len(it) THEN Return(acc)
  ELSE IF it[k].tag = "raise" THEN Return(acc)
  ELSE list_Partial(it, k + 1, Append(acc, it[k].body))

(* list(iterator): draws the items in order; an item that raises ends it   *)
RECURSIVE list(_, _, _)
list(it, k, acc) ==
  IF k > Len(it) THEN Return(acc)
  ELSE IF it[k].tag = "raise" THEN Raised
  ELSE list(it, k + 1, Append(acc, it[k].body))

(* float(x) *)
float(x) == Number("float", x.val)

(* ndarray.tolist() *)
tolist(arr) == [i \in 1..Len(arr.rows) |-> [k \in 1..Len(arr.rows[i]) |-> float(arr.rows[i][k])]]

(* attribute lookup embedder.<method>: AttributeError when the object's    *)
(* class has no such method (or the global is unbound)                     *)
HasMethod(obj, method) ==
  \/ obj.cls = "TextEmbedding" /\ method = "embed"
  \/ obj.cls = "SentenceTransformer" /\ method = "encode"

(* normalize is "absent" when the keyword is not passed *)
Call(req, obj, method, normalize) ==
  [req |-> req, obj |-> obj, method |-> method, normalize |-> normalize]

(* ---------------- requests ---------------- *)

(* the transport layer hands a parsed request to a registered route once   *)
(* the module body has run                                                 *)
Arrive(i, kind, inputs) ==
  /\ pc = "ready"
  /\ kind \in routes
  /\ reqs[i].st = "none"
  /\ \A j \in ReqIds : j < i => reqs[j].st # "none"
  /\ kind = "/health" => inputs = <<>>
  /\ reqs' = [reqs EXCEPT ![i] = [st |-> "pending", kind |-> kind, inputs |-> inputs]]
  /\ UNCHANGED <<pc, env, MODEL_ID, _backend, embedder, routes, trace, ret>>

(* the request leaves with the handler's return value or its exception *)
Over(res) == [st |-> IF res.tag = "raise" THEN "raised" ELSE "returned",
              kind |-> "none", inputs |-> <<>>]

(* variant: /health reports the resolved backend *)
health_ReportsBackend(i) ==
  /\ pc = "ready"
  /\ reqs[i].st = "pending"
  /\ reqs[i].kind = "/health"
  /\ LET res == Return([status |-> "ok", model |-> _backend])
     IN /\ ret' = [req |-> i, kind |-> reqs[i].kind, inputs |-> reqs[i].inputs,
                   failAt |-> 0, calls |-> <<>>, res |-> res]
        /\ reqs' = [reqs EXCEPT ![i] = Over(res)]
  /\ UNCHANGED <<pc, env, MODEL_ID, _backend, embedder, routes, trace>>

(* lines 22-24 *)
health(i) ==
  /\ pc = "ready"
  /\ reqs[i].st = "pending"
  /\ reqs[i].kind = "/health"
  /\ LET res == Return([status |-> "ok", model |-> MODEL_ID])
     IN /\ ret' = [req |-> i, kind |-> reqs[i].kind, inputs |-> reqs[i].inputs,
                   failAt |-> 0, calls |-> <<>>, res |-> res]
        /\ reqs' = [reqs EXCEPT ![i] = Over(res)]
  /\ UNCHANGED <<pc, env, MODEL_ID, _backend, embedder, routes, trace>>

(* lines 28-31: the fastembed branch *)
EmbedFastembed(i, inputs, failAt) ==
  LET call == Call(i, embedder, "embed", "absent")
  IN IF ~HasMethod(embedder, "embed") THEN [res |-> Raised, calls |-> <<call>>]
     ELSE LET embs == list(TextEmbedding_embed(embedder, inputs, failAt), 1, <<>>)
          IN IF embs.tag = "raise" THEN [res |-> Raised, calls |-> <<call>>]
             ELSE [res |-> Return([embeddings |->
                              [n \in 1..Len(embs.body) |->
                                 [k \in 1..Len(embs.body[n]) |-> float(embs.body[n][k])]]]),
                   calls |-> <<call>>]

(* variant: line 33 without normalization *)
EmbedSentenceTransformers_NoNormalize(i, inputs, failAt) ==
  LET normalize_embeddings == FALSE
      call == Call(i, embedder, "encode", IF normalize_embeddings THEN "True" ELSE "False")
  IN IF ~HasMethod(embedder, "encode") THEN [res |-> Raised, calls |-> <<call>>]
     ELSE LET arr == SentenceTransformer_encode(embedder, inputs, normalize_embeddings, failAt)
          IN IF arr.tag = "raise" THEN [res |-> Raised, calls |-> <<call>>]
             ELSE [res |-> Return([embeddings |-> tolist(arr.body)]), calls |-> <<call>>]

(* lines 32-34: the other branch *)
EmbedSentenceTransformers(i, inputs, failAt) ==
  LET normalize_embeddings == TRUE
      call == Call(i, embedder, "encode", IF normalize_embeddings THEN "True" ELSE "False")
  IN IF ~HasMethod(embedder, "encode") THEN [res |-> Raised, calls |-> <<call>>]
     ELSE LET arr == SentenceTransformer_encode(embedder, inputs, normalize_embeddings, failAt)
          IN IF arr.tag = "raise" THEN [res |-> Raised, calls |-> <<call>>]
             ELSE [res |-> Return([embeddings |-> tolist(arr.body)]), calls |-> <<call>>]

(* variant: a model call that raises makes the handler switch backend *)
embed_Reselect(i, failAt) ==
  /\ pc = "ready"
  /\ reqs[i].st = "pending"
  /\ reqs[i].kind = "/embed"
  /\ failAt \in 0..Len(reqs[i].inputs)
  /\ LET r == IF _backend = "fastembed"
              THEN EmbedFastembed(i, reqs[i].inputs, failAt)
              ELSE EmbedSentenceTransformers(i, reqs[i].inputs, failAt)
     IN /\ ret' = [req |-> i, kind |-> reqs[i].kind, inputs |-> reqs[i].inputs,
                   failAt |-> failAt, calls |-> r.calls, res |-> r.res]
        /\ reqs' = [reqs EXCEPT ![i] = Over(r.res)]
        /\ IF r.res.tag = "raise" /\ _backend = "fastembed"
           THEN /\ _backend' = "sentence-transformers"
                /\ embedder' = [cls |-> "SentenceTransformer", model |-> MODEL_ID]
           ELSE UNCHANGED <<_backend, embedder>>
  /\ UNCHANGED <<pc, env, MODEL_ID, routes, trace>>

(* variant: the handler reads the inputs of the request that arrived last *)
embed_SharedRequest(i, failAt) ==
  /\ pc = "ready"
  /\ reqs[i].st = "pending"
  /\ reqs[i].kind = "/embed"
  /\ failAt \in 0..Len(reqs[i].inputs)
  /\ LET last == CHOOSE j \in ReqIds :
                   /\ reqs[j].st # "none"
                   /\ \A m \in ReqIds : reqs[m].st # "none" => m <= j
         r == IF _backend = "fastembed"
              THEN EmbedFastembed(i, reqs[last].inputs, IF failAt = 0 THEN 0 ELSE 1)
              ELSE EmbedSentenceTransformers(i, reqs[last].inputs, failAt)
     IN /\ ret' = [req |-> i, kind |-> reqs[i].kind, inputs |-> reqs[i].inputs,
                   failAt |-> failAt, calls |-> r.calls, res |-> r.res]
        /\ reqs' = [reqs EXCEPT ![i] = Over(r.res)]
  /\ UNCHANGED <<pc, env, MODEL_ID, _backend, embedder, routes, trace>>

(* lines 26-34; the handler has no await, so it runs in one step *)
embed(i, failAt) ==
  /\ pc = "ready"
  /\ reqs[i].st = "pending"
  /\ reqs[i].kind = "/embed"
  /\ failAt \in 0..Len(reqs[i].inputs)
  /\ LET r == IF _backend = "fastembed"
              THEN EmbedFastembed(i, reqs[i].inputs, failAt)
              ELSE EmbedSentenceTransformers(i, reqs[i].inputs, failAt)
     IN /\ ret' = [req |-> i, kind |-> reqs[i].kind, inputs |-> reqs[i].inputs,
                   failAt |-> failAt, calls |-> r.calls, res |-> r.res]
        /\ reqs' = [reqs EXCEPT ![i] = Over(r.res)]
  /\ UNCHANGED <<pc, env, MODEL_ID, _backend, embedder, routes, trace>>

Next ==
  \/ ReadModelId
  \/ \E out \in Outcomes : ImportFastembed(out)
  \/ TagFastembed
  \/ \E out \in Outcomes : ConstructTextEmbedding(out)
  \/ \E out \in Outcomes : ImportSentenceTransformers(out)
  \/ TagSentenceTransformers
  \/ \E out \in Outcomes : ConstructSentenceTransformer(out)
  \/ DefineEmbedRequest
  \/ RegisterHealth
  \/ RegisterEmbed
  \/ \E i \in ReqIds, kind \in {"/health", "/embed"}, inputs \in InputSeqs : Arrive(i, kind, inputs)
  \/ \E i \in ReqIds : health(i)
  \/ \E i \in ReqIds, failAt \in 0..MaxLen : embed(i, failAt)

Spec == Init /\ [][Next]_vars

(* the interpreter runs the module body to its end or to an uncaught       *)
(* exception; requests are under no such obligation                        *)
Startup ==
  \/ ReadModelId
  \/ \E out \in Outcomes : ImportFastembed(out)
  \/ TagFastembed
  \/ \E out \in Outcomes : ConstructTextEmbedding(out)
  \/ \E out \in Outcomes : ImportSentenceTransformers(out)
  \/ TagSentenceTransformers
  \/ \E out \in Outcomes : ConstructSentenceTransformer(out)
  \/ DefineEmbedRequest
  \/ RegisterHealth
  \/ RegisterEmbed
FairSpec == Spec /\ WF_vars(Startup)

(* ---------------- reading the startup trace ---------------- *)

Events(op, targets) == {k \in 1..Len(trace) : trace[k].op = op /\ trace[k].target \in targets}
PrimaryEvents == Events("import", {"fastembed"}) \cup Events("construct", {"TextEmbedding"})
SecondaryEvents ==
  Events("import", {"sentence_transformers"}) \cup Events("construct", {"SentenceTransformer"})
PrimaryAttempted == PrimaryEvents # {}
SecondaryAttempted == SecondaryEvents # {}
PrimaryFailedWith(outs) == \E k \in PrimaryEvents : trace[k].out \in outs
SecondaryFailedWith(outs) == \E k \in SecondaryEvents : trace[k].out \in outs
PrimaryFailed == PrimaryFailedWith({"Exception", "BaseException"})
SecondaryFailed == SecondaryFailedWith({"Exception", "BaseException"})
PrimarySucceeded == \E k \in Events("construct", {"TextEmbedding"}) : trace[k].out = "ok"
SecondarySucceeded == \E k \in Events("construct", {"SentenceTransformer"}) : trace[k].out = "ok"
StartupOver == pc \in {"ready", "fatal"}
PastSelection == pc \in {"l19", "l22", "l26", "ready"}
Assignments(name) == Cardinality(Events("assign", {name}))
ConfiguredModelId == IF env = "unset" THEN DefaultModelId ELSE env
Ran(kind) == ret.req \in ReqIds /\ ret.kind = kind
EarlierRaised == \E j \in ReqIds : j # ret.req /\ reqs[j].st = "raised"

(* ---------------- C1 ---------------- *)

C1_Order ==
  /\ (PrimaryAttempted \/ SecondaryAttempted) =>
        \E k \in PrimaryEvents : \A j \in SecondaryEvents : k < j
  /\ PrimarySucceeded =>
        /\ PastSelection
        /\ _backend = "fastembed"
        /\ ~SecondaryAttempted
  /\ SecondarySucceeded =>
        /\ PastSelection
        /\ _backend = "sentence-transformers"

(* C1 as stated: the primary backend is attempted first; its success makes *)
(* the service ready on "fastembed" with the secondary never attempted;    *)
(* after ANY failure of the primary attempt, whatever was raised, the      *)
(* secondary is attempted, and its success makes the service ready on      *)
(* "sentence-transformers".                                                *)
C1_AnyFailureFallsBack ==
  /\ C1_Order
  /\ (StartupOver /\ PrimaryFailed) => SecondaryAttempted

C1_Caught ==
  /\ C1_Order
  /\ (PrimaryFailedWith({"Exception"}) /\ pc # "l15") => SecondaryAttempted
  /\ PrimaryFailedWith({"BaseException"}) => (pc = "fatal" /\ ~SecondaryAttempted)

(* C1 amended: as C1, with the fallback taken after every primary failure  *)
(* that raises an instance of Exception; a primary failure raising outside *)
(* Exception ends startup with the secondary never attempted.  A backend   *)
(* that was constructed leads to the ready state on that backend.          *)
C1_BackendSelection ==
  /\ []C1_Caught
  /\ (PrimarySucceeded ~> (pc = "ready" /\ _backend = "fastembed"))
  /\ (SecondarySucceeded ~> (pc = "ready" /\ _backend = "sentence-transformers"))
  /\ (PrimaryFailedWith({"Exception"}) ~> SecondaryAttempted)

C1_Witness ==
  /\ pc = "ready"
  /\ _backend = "sentence-transformers"
  /\ PrimaryFailedWith({"Exception"})
  /\ SecondarySucceeded

(* ---------------- C2 ---------------- *)

C2_State ==
  (PrimaryFailed /\ SecondaryFailed) =>
    /\ pc = "fatal"
    /\ Cardinality(Events("import", {"fastembed"})) <= 1
    /\ Cardinality(Events("construct", {"TextEmbedding"})) <= 1
    /\ Cardinality(Events("import", {"sentence_transformers"})) = 1
    /\ Cardinality(Events("construct", {"SentenceTransformer"})) <= 1
    /\ routes = {}
    /\ \A i \in ReqIds : reqs[i].st = "none"
    /\ ret.req = 0

(* C2: once both backends have failed to initialize the process is in the  *)
(* fatal state, each backend was tried once, no route is registered, no    *)
(* request was served, and nothing further ever happens.                   *)
C2_BothFailFatal ==
  /\ []C2_State
  /\ [][pc # "fatal"]_vars

C2_Witness ==
  /\ pc = "fatal"
  /\ \E k \in Events("construct", {"TextEmbedding"}) : trace[k].out = "Exception"
  /\ \E k \in Events("construct", {"SentenceTransformer"}) : trace[k].out = "Exception"

(* ---------------- C3 ---------------- *)

(* C3 as stated: the tag and the model object are each bound exactly once  *)
(* by the time the service is ready.                                       *)
C3_AssignedExactlyOnce ==
  pc = "ready" => (Assignments("_backend") = 1 /\ Assignments("embedder") = 1)

C3_Bindings ==
  pc = "ready" =>
    /\ Assignments("embedder") = 1
    /\ Assignments("_backend") \in {1, 2}
    /\ Assignments("_backend") = 2 <=>
         \E k \in Events("construct", {"TextEmbedding"}) : trace[k].out = "Exception"

(* C3 amended: the model object is bound exactly once during startup and   *)
(* the tag once, or twice when the primary constructor failed after the    *)
(* tag was set; once the service is ready no request, succeeding or        *)
(* failing, changes the tag or the model object.                           *)
C3_SelectionImmutable ==
  /\ []C3_Bindings
  /\ [][pc = "ready" =>
          (_backend' = _backend /\ embedder' = embedder /\ trace' = trace /\ pc' = pc)]_vars

C3_Witness ==
  /\ pc = "ready"
  /\ Assignments("_backend") = 2
  /\ EarlierRaised
  /\ Ran("/health")

(* ---------------- C4 ---------------- *)

SelectedLibrary == IF PrimarySucceeded THEN "fastembed" ELSE "sentence-transformers"

(* what the selected backend's model yields for one text, as plain floats *)
BackendVector(text) ==
  [k \in 1..Dim |->
     [type |-> "float",
      val |-> [lib |-> SelectedLibrary, model |-> ConfiguredModelId, text |-> text,
               k |-> k, unit |-> (SelectedLibrary = "sentence-transformers")]]]

(* C4: an /embed handler run whose model call did not raise returns one    *)
(* vector per input, the n-th being the selected backend's vector for the  *)
(* n-th input; empty inputs return {"embeddings": []}.                     *)
C4_OneVectorPerInput ==
  (Ran("/embed") /\ ret.failAt = 0) =>
    /\ ret.res.tag = "return"
    /\ DOMAIN ret.res.body = {"embeddings"}
    /\ Len(ret.res.body.embeddings) = Len(ret.inputs)
    /\ \A n \in 1..Len(ret.inputs) : ret.res.body.embeddings[n] = BackendVector(ret.inputs[n])
    /\ ret.inputs = <<>> => ret.res.body = [embeddings |-> <<>>]

C4_Witness ==
  /\ _backend = "fastembed"
  /\ Ran("/embed")
  /\ ret.inputs = <<"a", "b">>
  /\ ret.res.tag = "return"

(* ---------------- C5 ---------------- *)

(* C5: an /embed handler run whose model call raised has the raise as its  *)
(* whole result (no embeddings) and made exactly one call; every run,      *)
(* before or after a failure, calls the model object selected at startup   *)
(* with that backend's method, and the selection is as startup left it.    *)
C5_FailsAtomically ==
  /\ (Ran("/embed") /\ ret.failAt # 0) =>
       /\ ret.res = [tag |-> "raise"]
       /\ Len(ret.calls) = 1
  /\ \A k \in 1..Len(ret.calls) :
       /\ ret.calls[k].req = ret.req
       /\ ret.calls[k].obj = embedder
       /\ ret.calls[k].obj.cls =
            (IF SelectedLibrary = "fastembed" THEN "TextEmbedding" ELSE "SentenceTransformer")
       /\ ret.calls[k].method = (IF SelectedLibrary = "fastembed" THEN "embed" ELSE "encode")
  /\ ret.req \in ReqIds =>
       (_backend = SelectedLibrary /\ (PrimarySucceeded \/ SecondarySucceeded))

C5_Witness ==
  /\ _backend = "fastembed"
  /\ EarlierRaised
  /\ Ran("/embed")
  /\ ret.res.tag = "return"
  /\ ret.inputs # <<>>

(* ---------------- C6 ---------------- *)

(* C6: the step that serves a /health request returns                      *)
(* {"status": "ok", "model": <configured MODEL_ID>} and changes nothing    *)
(* else: not the selection, not the model identifier, not the routes, not  *)
(* any other request; it calls no model.                                   *)
C6_HealthFrame ==
  [][\A i \in ReqIds :
       (reqs[i].st = "pending" /\ reqs[i].kind = "/health" /\ reqs'[i].st # "pending") =>
         /\ ret'.req = i
         /\ ret'.res = [tag |-> "return",
                        body |-> [status |-> "ok", model |-> ConfiguredModelId]]
         /\ ret'.calls = <<>>
         /\ reqs'[i].st = "returned"
         /\ \A j \in ReqIds \ {i} : reqs'[j] = reqs[j]
         /\ UNCHANGED <<pc, env, MODEL_ID, _backend, embedder, routes, trace>>]_vars

C6_Witness ==
  /\ _backend = "sentence-transformers"
  /\ env # "unset"
  /\ EarlierRaised
  /\ Ran("/health")
  /\ ret.res.body.model = env

(* ---------------- C7 ---------------- *)

ReturnedUnits ==
  {ret.res.body.embeddings[n][k].val.unit :
     n \in 1..Len(ret.res.body.embeddings), k \in 1..Dim}

(* C7: when the primary backend failed and the secondary was constructed   *)
(* startup goes on to ready, every /embed run makes the secondary's encode *)
(* call with normalize_embeddings=True and every returned vector is        *)
(* normalized; when the primary was constructed no call passes a           *)
(* normalization flag and no returned vector is normalized.                *)
C7_NormalizationAsymmetry ==
  /\ (PrimaryFailed /\ SecondarySucceeded) =>
       /\ PastSelection
       /\ Ran("/embed") =>
            /\ Len(ret.calls) = 1
            /\ ret.calls[1].method = "encode"
            /\ ret.calls[1].obj.cls = "SentenceTransformer"
            /\ ret.calls[1].normalize = "True"
            /\ ret.res.tag = "return" => ReturnedUnits \subseteq {TRUE}
  /\ PrimarySucceeded =>
       /\ Ran("/embed") =>
            /\ Len(ret.calls) = 1
            /\ ret.calls[1].method = "embed"
            /\ ret.calls[1].normalize = "absent"
            /\ ret.res.tag = "return" => ReturnedUnits \subseteq {FALSE}

C7_Witness ==
  /\ PrimaryFailed /\ SecondarySucceeded
  /\ \E j \in ReqIds : j # ret.req /\ reqs[j].st \in {"returned", "raised"}
  /\ Ran("/embed")
  /\ ret.res.tag = "return"
  /\ ReturnedUnits = {TRUE}

(* ---------------- C8 ---------------- *)

(* the result of a request handled with no other request around, on the   *)
(* backend selected at startup                                             *)
Alone(kind, inputs, failAt) ==
  IF kind = "/health"
  THEN [tag |-> "return", body |-> [status |-> "ok", model |-> ConfiguredModelId]]
  ELSE IF failAt # 0 THEN [tag |-> "raise"]
  ELSE [tag |-> "return",
        body |-> [embeddings |-> [n \in 1..Len(inputs) |-> BackendVector(inputs[n])]]]

C8_State ==
  ret.req \in ReqIds => ret.res = Alone(ret.kind, ret.inputs, ret.failAt)

C8_Step ==
  \A i \in ReqIds :
    reqs'[i] # reqs[i] =>
      /\ \A j \in ReqIds \ {i} : reqs'[j] = reqs[j]
      /\ reqs[i].st \in {"none", "pending"}
      /\ reqs[i].st = "none" => ret' = ret
      /\ reqs[i].st = "pending" =>
           /\ reqs'[i].st \in {"returned", "raised"}
           /\ ret'.req = i
           /\ ret'.kind = reqs[i].kind
           /\ ret'.inputs = reqs[i].inputs
           /\ \A k \in 1..Len(ret'.calls) : ret'.calls[k].req = i

(* C8: however the handling of requests is interleaved, every handler run  *)
(* has the result its request would have alone on the selected backend; a  *)
(* step touches one request only, works on that request's own inputs, and  *)
(* never touches a request that is over.                                   *)
C8_RequestsIndependent ==
  /\ []C8_State
  /\ [][C8_Step]_vars

C8_Witness ==
  /\ ret.req = 2
  /\ ret.kind = "/embed"
  /\ ret.res.tag = "return"
  /\ reqs[1].st = "pending"
  /\ reqs[1].kind = "/embed"
  /\ reqs[1].inputs # ret.inputs

(* ---------------- C9 ---------------- *)

C9_State ==
  /\ pc # "l6" =>
       /\ Cardinality(Events("getenv", {"MODEL_ID"})) = 1
       /\ MODEL_ID = ConfiguredModelId
  /\ \A k \in Events("construct", {"TextEmbedding", "SentenceTransformer"}) :
       trace[k].arg = ConfiguredModelId
  /\ Ran("/health") => ret.res.body.model = ConfiguredModelId

(* C9: the model identifier is read from the environment once (the fixed   *)
(* default when unset) and keeps that value; both constructors receive it  *)
(* and /health reports it.                                                 *)
C9_ModelIdFixed ==
  /\ []C9_State
  /\ [][pc # "l6" => (MODEL_ID' = MODEL_ID /\ env' = env)]_vars

C9_Witness ==
  /\ env = "unset"
  /\ Events("construct", {"TextEmbedding"}) # {}
  /\ SecondarySucceeded
  /\ Ran("/health")

(* ---------------- C10 ---------------- *)

Servable == pc = "ready" \/ routes # {} \/ \E i \in ReqIds : reqs[i].st # "none"
TagAheadOfModel ==
  /\ _backend = "fastembed"
  /\ \E k \in Events("construct", {"TextEmbedding"}) : trace[k].out # "ok"

(* C10: whenever a request can be served the tag and the model object      *)
(* agree ("fastembed" with the constructed TextEmbedding,                  *)
(* "sentence-transformers" with the constructed SentenceTransformer); the  *)
(* state where the tag reads "fastembed" after the primary constructor     *)
(* failed is never one where a request can be served; every call a handler *)
(* made was a method of the class of the object it was made on.            *)
C10_TagMatchesModel ==
  /\ Servable =>
       /\ _backend \in {"fastembed", "sentence-transformers"}
       /\ _backend = "fastembed" <=>
            (embedder = [cls |-> "TextEmbedding", model |-> ConfiguredModelId]
               /\ PrimarySucceeded)
       /\ _backend = "sentence-transformers" <=>
            (embedder = [cls |-> "SentenceTransformer", model |-> ConfiguredModelId]
               /\ SecondarySucceeded)
  /\ TagAheadOfModel => ~Servable
  /\ \A k \in 1..Len(ret.calls) :
       /\ ret.calls[k].obj.cls # "unbound"
       /\ ret.calls[k].obj.cls = "TextEmbedding" <=> ret.calls[k].method = "embed"
       /\ ret.calls[k].obj.cls = "SentenceTransformer" <=> ret.calls[k].method = "encode"

C10_Witness ==
  /\ pc = "ready"
  /\ \E k \in Events("construct", {"TextEmbedding"}) : trace[k].out = "Exception"
  /\ Ran("/embed")
  /\ ret.res.tag = "return"
====
